---- MODULE Spec2Model ----
(***************************************************************************)
(* A model of octoapp: the App configuration and its builder               *)
(* (src/config.rs), the webhook signature check, the envelope parser, the  *)
(* client constructors, the renderings of the configuration and the two    *)
(* framework adapters (src/ghhyper, src/ghrocket.rs), the Hyper one also   *)
(* with several connections served at once.                                *)
(*                                                                         *)
(* Conventions                                                             *)
(*   - a Rust String is a sequence of Unicode scalar values (code points); *)
(*     a byte slice is a sequence of 0..255; as_bytes() is UTF-8 encoding; *)
(*   - Option<T> is a sequence of length 0 (None) or 1 (Some(v));          *)
(*   - Result<T, E> is a record [ok |-> BOOLEAN, val |-> ..., err |-> ...]. *)
(***************************************************************************)
EXTENDS Integers, Sequences, FiniteSets, TLC

(***************************************************************************)
(* Bounds of the model.                                                    *)
(***************************************************************************)
\* longest request body, in bytes, of the signature-check specification
MaxBodyLen == 2
\* longest webhook secret, in characters, given to the builder
MaxSecretChars == 17

(***************************************************************************)
(* Option and small helpers.                                               *)
(***************************************************************************)
None == << >>
Some(v) == << v >>
IsSome(o) == Len(o) = 1
Unwrap(o) == o[1]

\* the string of n copies of the character c
Rep(c, n) == [i \in 1..n |-> c]

RECURSIVE Concat(_)
\* flattens a sequence of sequences
Concat(ss) == IF ss = << >> THEN << >> ELSE Head(ss) \o Concat(Tail(ss))

(***************************************************************************)
(* str / String / bytes primitives of the standard library the code uses.  *)
(***************************************************************************)
\* str::starts_with(prefix)
StartsWith(s, p) == Len(s) >= Len(p) /\ SubSeq(s, 1, Len(p)) = p

\* s.chars().skip(n).collect::<String>()
SkipChars(s, n) == SubSeq(s, n + 1, Len(s))

\* the UTF-8 encoding of one Unicode scalar value (up to three bytes here)
Utf8Char(cp) ==
    IF cp < 128 THEN << cp >>
    ELSE IF cp < 2048 THEN << 192 + (cp \div 64), 128 + (cp % 64) >>
    ELSE << 224 + (cp \div 4096), 128 + ((cp \div 64) % 64), 128 + (cp % 64) >>

\* String::as_bytes(): the UTF-8 bytes of the string
AsBytes(s) == Concat([i \in 1..Len(s) |-> Utf8Char(s[i])])

\* String::len(): the length in BYTES of the UTF-8 encoding, not in characters
StrLen(s) == Len(AsBytes(s))

\* the literal "sha256="
Sha256Prefix == << 115, 104, 97, 50, 53, 54, 61 >>

\* the lowercase hexadecimal digits 0-9a-f, as characters
HexDigits == << 48, 49, 50, 51, 52, 53, 54, 55, 56, 57, 97, 98, 99, 100, 101, 102 >>

\* hex::encode(bytes): two lowercase hex digits per byte
HexEncode(bytes) ==
    [i \in 1..(2 * Len(bytes)) |->
        IF i % 2 = 1 THEN HexDigits[(bytes[(i + 1) \div 2] \div 16) + 1]
                     ELSE HexDigits[(bytes[i \div 2] % 16) + 1]]

(***************************************************************************)
(* HMAC-SHA256 (RFC 2104), as the hmac and sha2 crates compute it.         *)
(* SHA-256 itself is replaced by a collision-free stand-in (the digest of  *)
(* a message determines the message): collision resistance is the          *)
(* assumption under which the signature claims are checked. The key        *)
(* schedule of HMAC is modelled as it is: a key longer than one block is   *)
(* replaced by its digest, and the key is then padded with zero bytes to a *)
(* full block.                                                             *)
(***************************************************************************)
\* the block size of SHA-256 in bytes
BlockSize == 64
\* the inner and outer pad bytes of HMAC
IPad == 54
OPad == 92

RECURSIVE XorBits(_, _, _)
\* the exclusive or of the low n bits of a and b
XorBits(a, b, n) ==
    IF n = 0 THEN 0
    ELSE ((a + b) % 2) + 2 * XorBits(a \div 2, b \div 2, n - 1)

\* the exclusive or of two bytes
Xor(a, b) == XorBits(a, b, 8)

\* the digest function (collision-free stand-in for SHA-256)
Sha256(msg) == msg

\* the key block: the key (or its digest when longer than a block), zero padded
KeyBlock(key) ==
    LET k == IF Len(key) > BlockSize THEN Sha256(key) ELSE key
    IN  k \o Rep(0, BlockSize - Len(k))

\* byte -> byte xor the inner pad, and byte -> byte xor the outer pad
XorIPad == [b \in 0..255 |-> Xor(b, IPad)]
XorOPad == [b \in 0..255 |-> Xor(b, OPad)]

\* Hmac::<Sha256>::new_from_slice(key), update(data), finalize().into_bytes()
HmacSha256(key, data) ==
    LET kb   == KeyBlock(key)
        ikey == [i \in 1..Len(kb) |-> XorIPad[kb[i]]]
        okey == [i \in 1..Len(kb) |-> XorOPad[kb[i]]]
    IN  Sha256(okey \o Sha256(ikey \o data))

\* what the sender puts in X-Hub-Signature-256: "sha256=" + lowercase hex of the HMAC
SignatureFor(secret, body) == Sha256Prefix \o HexEncode(HmacSha256(AsBytes(secret), body))

(***************************************************************************)
(* Errors (src/error.rs). An error is a record [kind, msg].                *)
(***************************************************************************)
MissingField(field) == [kind |-> "MissingField", msg |-> field]
WebhookSecretError(n) == [kind |-> "WebhookSecretError", msg |-> n]
IoError == [kind |-> "IoError", msg |-> 0]
JsonWebTokenError == [kind |-> "JsonWebTokenError", msg |-> 0]

Ok(v) == [ok |-> TRUE, val |-> Some(v), err |-> None]
Err(e) == [ok |-> FALSE, val |-> None, err |-> Some(e)]

(***************************************************************************)
(* The environment of build(): the file system behind a key-file path and  *)
(* the PEM parser (jsonwebtoken::EncodingKey::from_rsa_pem). A key text is *)
(* a record [pem |-> BOOLEAN, id]: pem says whether it parses as an RSA    *)
(* private key. A path is a record [readable, data].                       *)
(***************************************************************************)
GoodInlineKey == [pem |-> TRUE, id |-> "inline"]
BadInlineKey == [pem |-> FALSE, id |-> "inline"]
GoodFileKey == [pem |-> TRUE, id |-> "file"]
BadFileKey == [pem |-> FALSE, id |-> "file"]

\* std::fs::read_to_string(path)
ReadToString(path) == IF path.readable THEN Ok(path.data) ELSE Err(IoError)

\* jsonwebtoken::EncodingKey::from_rsa_pem(text)
FromRsaPem(text) == IF text.pem THEN Ok([key |-> text.id]) ELSE Err(JsonWebTokenError)

(***************************************************************************)
(* OctoAppConfigBuilder and its setters (src/config.rs).                   *)
(***************************************************************************)
\* OctoAppConfigBuilder::app_name
SetAppName(b, v) == [b EXCEPT !.app_name = Some(v)]
\* OctoAppConfigBuilder::app_id (app ids of the model fit in a u32)
SetAppId(b, v) == [b EXCEPT !.app_id = Some(v)]
\* OctoAppConfigBuilder::client_id
SetClientId(b, v) == [b EXCEPT !.client_id = Some(v)]
\* OctoAppConfigBuilder::client_secret
SetClientSecret(b, v) == [b EXCEPT !.client_secret = Some(v)]
\* OctoAppConfigBuilder::client_key
SetClientKey(b, v) == [b EXCEPT !.client_key = Some(v)]
\* OctoAppConfigBuilder::client_key_path
SetClientKeyPath(b, v) == [b EXCEPT !.client_key_path = Some(v)]
\* OctoAppConfigBuilder::webhook_secret
SetWebhookSecret(b, v) == [b EXCEPT !.webhook_secret = Some(v)]

\* a variant that prefers the inline key and reads the file only when no inline
\* key is given
BuildClientKeyInlineFirst(value) ==
    IF IsSome(value.client_key) THEN
        LET key == FromRsaPem(Unwrap(value.client_key))
        IN  IF key.ok THEN Ok(Some(Unwrap(key.val))) ELSE key
    ELSE IF IsSome(value.client_key_path) THEN
        LET data == ReadToString(Unwrap(value.client_key_path))
        IN  IF ~data.ok THEN data
            ELSE LET key == FromRsaPem(Unwrap(data.val))
                 IN  IF key.ok THEN Ok(Some(Unwrap(key.val))) ELSE key
    ELSE Ok(None)

\* the first step of try_from: the signing key, from the file when a path is
\* given, else from the inline text, else none
BuildClientKey(value) ==
    IF IsSome(value.client_key_path) THEN
        LET data == ReadToString(Unwrap(value.client_key_path))
        IN  IF ~data.ok THEN data
            ELSE LET key == FromRsaPem(Unwrap(data.val))
                 IN  IF key.ok THEN Ok(Some(Unwrap(key.val))) ELSE key
    ELSE IF IsSome(value.client_key) THEN
        LET key == FromRsaPem(Unwrap(value.client_key))
        IN  IF key.ok THEN Ok(Some(Unwrap(key.val))) ELSE key
    ELSE Ok(None)

\* the length below which build() refuses a webhook secret
SecretMinLen == 8
\* the length below which build() warns about a webhook secret
SecretWarnLen == 16

\* the second step of try_from: the webhook secret and its length check;
\* the result carries the warnings logged (tracing::warn!)
BuildWebhookSecret(value) ==
    IF IsSome(value.webhook_secret) THEN
        LET secret == Unwrap(value.webhook_secret)
        IN  IF StrLen(secret) < SecretMinLen
            THEN [res |-> Err(WebhookSecretError(StrLen(secret))), warned |-> FALSE]
            ELSE [res |-> Ok(Some(secret)), warned |-> StrLen(secret) < SecretWarnLen]
    ELSE [res |-> Ok(None), warned |-> FALSE]

\* a variant that falls back to App id 0 when none is given
BuildAppIdOrDefault(value) ==
    IF IsSome(value.app_id) THEN Ok(Unwrap(value.app_id)) ELSE Ok(0)

\* the last step of try_from: the App id is required
BuildAppId(value) ==
    IF IsSome(value.app_id) THEN Ok(Unwrap(value.app_id)) ELSE Err(MissingField("AppID"))

\* impl TryFrom<OctoAppConfigBuilder> for OctoAppConfig, the body of build():
\* [res |-> Result<OctoAppConfig, OctoAppError>, warned |-> whether a warning was logged]
TryFrom(value) ==
    LET key    == BuildClientKey(value)
        secret == BuildWebhookSecret(value)
        appid  == BuildAppId(value)
    IN  IF ~key.ok THEN [res |-> key, warned |-> FALSE]
        ELSE IF ~secret.res.ok THEN [res |-> secret.res, warned |-> FALSE]
        ELSE IF ~appid.ok THEN [res |-> appid, warned |-> secret.warned]
        ELSE [res |-> Ok([app_name       |-> value.app_name,
                          app_id         |-> Unwrap(appid.val),
                          client_id      |-> value.client_id,
                          client_secret  |-> value.client_secret,
                          client_key     |-> Unwrap(key.val),
                          webhook_secret |-> Unwrap(secret.res.val)]),
              warned |-> secret.warned]

(***************************************************************************)
(* OctoAppConfig::webhook_signature_verification (src/config.rs).          *)
(***************************************************************************)
\* Hmac::new_from_slice(key): HMAC takes a key of any length, so this is Ok
HmacNewFromSlice(key) == Ok(key)

\* the outcome of a call: it returned ret, or it panicked
Returned(b) == [panic |-> FALSE, ret |-> b]
Panicked == [panic |-> TRUE, ret |-> FALSE]

\* a variant that drops the prefix check and slices the signature at byte 7
WebhookSignatureVerificationNoPrefix(cfg, data, signature) ==
    IF IsSome(cfg.webhook_secret) THEN
        IF Len(signature) < Len(Sha256Prefix) THEN Panicked
        ELSE Returned(HexEncode(HmacSha256(AsBytes(Unwrap(cfg.webhook_secret)), data))
                        = SkipChars(signature, Len(Sha256Prefix)))
    ELSE Returned(FALSE)

\* a variant that accepts every signature carrying the prefix
WebhookSignatureVerificationPrefixOnly(cfg, data, signature) ==
    IF IsSome(cfg.webhook_secret)
    THEN Returned(StartsWith(signature, Sha256Prefix))
    ELSE Returned(FALSE)

\* OctoAppConfig::webhook_signature_verification(&self, data, signature)
WebhookSignatureVerification(cfg, data, signature) ==
    IF IsSome(cfg.webhook_secret) THEN
        LET secret == Unwrap(cfg.webhook_secret)
        IN  IF StartsWith(signature, Sha256Prefix) THEN
                LET hex_signature == SkipChars(signature, 7)
                    mac           == HmacNewFromSlice(AsBytes(secret))
                IN  IF ~mac.ok THEN Panicked
                    ELSE LET hex_result == HexEncode(HmacSha256(Unwrap(mac.val), data))
                         IN  Returned(hex_result = hex_signature)
            ELSE Returned(FALSE)
    ELSE Returned(FALSE)

(***************************************************************************)
(* Webhook documents. The JSON text of a body is not modelled character by *)
(* character: a document is what serde_json makes of the text,             *)
(*   [json         |-> whether the text is well-formed JSON,               *)
(*    object       |-> whether its top-level value is a JSON object,       *)
(*    installation |-> the member "installation" of that object (Option),  *)
(*    matches      |-> the Event variants whose payload shape it has].     *)
(* A JSON value is [type, id, n]: type is "object", "string", "null",      *)
(* "posint" (a number serde_json reads as u64), "negint" or "float";       *)
(* id is the member "id" of an object (Option), n the value of a number.   *)
(* The payload structs (events::payloads) are not part of the sources, so  *)
(* the shape of a variant is not modelled: a document carries the set of   *)
(* variants it structurally matches, and every such set is considered.     *)
(***************************************************************************)
\* the variants of enum Event, in the order of their declaration
EventVariants == <<
    "BranchProtectionRule", "CheckRun", "CheckSuite", "CodeScanningAlert",
    "CommitComment", "Create", "Delete", "DependabotAlert", "DeployKey",
    "DeploymentProtectionRule", "DeploymentStatus", "Deployment",
    "DiscussionComment", "Discussion", "Fork", "GithubAppAuthorization",
    "Gollum", "InstallationRepositories", "InstallationTarget",
    "Installation", "IssueComment", "Issues", "Label", "MarketplacePurchase",
    "Member", "Membership", "MergeGroup", "Meta", "Milestone", "OrgBlock",
    "Organization", "Package", "PageBuild", "PersonalAccessTokenRequest",
    "Ping", "ProjectCard", "ProjectColumn", "ProjectsV2Item", "ProjectsV2",
    "Public", "PullRequestReviewComment", "PullRequestReviewThread",
    "PullRequestReview", "PullRequest", "Push", "RegistryPackage", "Release",
    "RepositoryAdvisory", "RepositoryImport", "RepositoryVulnerabilityAlert",
    "Repository", "SecretScanningAlertLocation", "SecretScanningAlert",
    "SecurityAdvisory", "SecurityAndAnalysis", "Sponsorship", "Star",
    "Status", "TeamAdd", "Team", "Watch", "WorkflowDispatch", "WorkflowJob"
>>

\* largest installation id of the model's documents
MaxInstId == 2
\* the most variants one document of the model matches at once
MaxMatches == 2

JsonScalar(type, n) == [type |-> type, id |-> None, n |-> n]
JsonObject(id) == [type |-> "object", id |-> id, n |-> 0]

\* the values the member installation.id takes in the model
IdValues ==
    { JsonScalar("string", 0), JsonScalar("negint", 1), JsonScalar("float", 1),
      JsonScalar("null", 0) }
      \cup { JsonScalar("posint", n) : n \in 0..MaxInstId }

\* the values the member installation takes in the model
InstallationValues ==
    { JsonScalar("string", 0), JsonScalar("null", 0), JsonScalar("posint", 1),
      JsonObject(None) }
      \cup { JsonObject(Some(v)) : v \in IdValues }

VariantNames == { EventVariants[i] : i \in 1..Len(EventVariants) }

RECURSIVE SetsUpTo(_)
\* the sets of at most k variants
SetsUpTo(k) ==
    IF k = 0 THEN { {} }
    ELSE LET prev == SetsUpTo(k - 1)
         IN  prev \cup { s \cup {v} : s \in prev, v \in VariantNames }

\* the sets of variants a document of the model matches
MatchSets == SetsUpTo(MaxMatches)

\* text that is not JSON at all
MalformedDoc == [json |-> FALSE, object |-> FALSE, installation |-> None, matches |-> {}]
\* well-formed JSON whose top-level value is no object (and so no event payload)
NonObjectDoc == [json |-> TRUE, object |-> FALSE, installation |-> None, matches |-> {}]

ObjectDoc(inst, m) == [json |-> TRUE, object |-> TRUE, installation |-> inst, matches |-> m]

\* whether the document has the shape of the payload of variant v
Matches(v, doc) == doc.json /\ doc.object /\ v \in doc.matches

(***************************************************************************)
(* The envelope parser: parse_webhook (src/ghhyper/mod.rs) and             *)
(* WebHook::from_str (src/ghrocket.rs).                                    *)
(***************************************************************************)
JsonSerializationError == [kind |-> "JsonSerializationError", msg |-> 0]

\* u64::deserialize: only a non-negative integer number is a u64
DeserializeU64(v) == IF v.type = "posint" THEN Ok(v.n) ELSE Err(JsonSerializationError)

\* InsBlob::deserialize: an object with a member id that is a u64
DeserializeInsBlob(v) ==
    IF v.type = "object" /\ IsSome(v.id)
    THEN LET id == DeserializeU64(Unwrap(v.id))
         IN  IF id.ok THEN Ok([id |-> Unwrap(id.val)]) ELSE id
    ELSE Err(JsonSerializationError)

\* serde_json::from_str::<ReqBlob>(s): an object with a member installation
\* that is an InsBlob; other members are ignored. (serde also reads a struct
\* from a JSON array, by position; a document that is no object matches no
\* Event variant here, so an id read that way never reaches an envelope.)
DeserializeReqBlob(doc) ==
    IF doc.json /\ doc.object /\ IsSome(doc.installation)
    THEN LET ins == DeserializeInsBlob(Unwrap(doc.installation))
         IN  IF ins.ok THEN Ok([installation |-> Unwrap(ins.val)]) ELSE ins
    ELSE Err(JsonSerializationError)

RECURSIVE TryVariantsBackwards(_, _)
\* a variant of the decode that prefers the variant declared last
TryVariantsBackwards(doc, i) ==
    IF i > Len(EventVariants) THEN Err(JsonSerializationError)
    ELSE LET v == EventVariants[Len(EventVariants) + 1 - i]
         IN  IF Matches(v, doc) THEN Ok([variant |-> v])
             ELSE TryVariantsBackwards(doc, i + 1)

RECURSIVE TryVariants(_, _)
\* #[serde(untagged)]: the variants are tried from the i-th on, in the order
\* of declaration; the first whose payload deserializes is the result
TryVariants(doc, i) ==
    IF i > Len(EventVariants) THEN Err(JsonSerializationError)
    ELSE IF Matches(EventVariants[i], doc) THEN Ok([variant |-> EventVariants[i]])
    ELSE TryVariants(doc, i + 1)

\* a variant of the decode that falls back to the first variant
DeserializeEventOrDefault(doc) ==
    LET r == TryVariants(doc, 1)
    IN  IF r.ok \/ ~doc.json THEN r ELSE Ok([variant |-> EventVariants[1]])

\* serde_json::from_str::<Event>(s), the derived Deserialize of enum Event
DeserializeEvent(doc) == TryVariants(doc, 1)

\* the tuple struct WebHook(value, installation id)
WebHook(value, id) == [payload |-> value, installation |-> id]

\* a variant of the parser that gives up when the installation id is missing
ParseWebhookStrict(doc) ==
    LET blob == DeserializeReqBlob(doc)
        full == DeserializeEvent(doc)
    IN  IF ~blob.ok THEN blob
        ELSE IF full.ok THEN Ok(WebHook(Unwrap(full.val), Unwrap(blob.val).installation.id))
        ELSE full

\* a variant of the parser without the first pass: the id is always 0
ParseWebhookNoFirstPass(doc) ==
    LET full == DeserializeEvent(doc)
    IN  IF full.ok THEN Ok(WebHook(Unwrap(full.val), 0)) ELSE full

\* parse_webhook::<Event>(s) of the Hyper adapter
ParseWebhook(doc) ==
    LET blob == DeserializeReqBlob(doc)
        id   == IF blob.ok THEN Unwrap(blob.val).installation.id ELSE 0
        full == DeserializeEvent(doc)
    IN  IF full.ok THEN Ok(WebHook(Unwrap(full.val), id)) ELSE full

\* WebHook::<Event>::from_str(s) of the Rocket adapter
WebHookFromStr(doc) ==
    LET blob == DeserializeReqBlob(doc)
        id   == IF blob.ok THEN Unwrap(blob.val).installation.id ELSE 0
        full == DeserializeEvent(doc)
    IN  IF full.ok THEN Ok(WebHook(Unwrap(full.val), id)) ELSE full

(***************************************************************************)
(* State.                                                                  *)
(***************************************************************************)
VARIABLES
    builder,    \* the OctoAppConfigBuilder under construction
    built,      \* Option of the outcome of build(): [res, warned]
    config,     \* the OctoAppConfig the verifier and the adapters hold
    vcall,      \* Option of the last call of webhook_signature_verification
    pcall,      \* Option of the last call of the envelope parser
    server,     \* the adapter's setup: [path, handler] (handler: one is registered)
    req,        \* Option of the request being handled, with what was done for it
    ocall,      \* Option of the last call of a client constructor, with its progress
    shown,      \* Option of the last Display or Debug rendering
    tasks       \* the requests the spawned connection tasks of a server are handling

vars == << builder, built, config, vcall, pcall, server, req, ocall, shown, tasks >>

(***************************************************************************)
(* Inputs of the model.                                                    *)
(***************************************************************************)
\* the characters of the model's texts: NUL, 'a', 'b' and the two-byte e-acute
Char == [nul |-> 0, a |-> 97, b |-> 98, eacute |-> 233]

\* the texts given as App name, client id and client secret
SomeText == << Char.a >>

\* the webhook secrets given to the builder: up to MaxSecretChars characters,
\* of one-byte or of two-byte characters
SecretInputs == { Rep(c, n) : c \in {Char.a, Char.eacute}, n \in 0..MaxSecretChars }

\* the key-file paths given to the builder
KeyPaths ==
    { [readable |-> FALSE, data |-> BadFileKey],
      [readable |-> TRUE, data |-> BadFileKey],
      [readable |-> TRUE, data |-> GoodFileKey] }

\* the inline keys given to the builder
InlineKeys == { GoodInlineKey, BadInlineKey }

\* the App ids given to the builder
AppIds == { 1, 12345 }

Opt(S) == { None } \cup { Some(v) : v \in S }

\* the process environment read by Default for OctoAppConfigBuilder
Envs ==
    [ APP_NAME         : Opt({SomeText}),
      APP_ID           : Opt({1}),
      CLIENT_ID        : {None},
      CLIENT_SECRET    : {None},
      CLIENT_KEY       : Opt({GoodInlineKey}),
      PRIVATE_KEY_PATH : Opt({[readable |-> TRUE, data |-> GoodFileKey]}),
      WEBHOOK_SECRET   : Opt({Rep(Char.a, 8)}) ]

\* impl Default for OctoAppConfigBuilder: every field from its environment
\* variable (an APP_ID that is no number panics here, before a builder exists)
DefaultBuilder(env) ==
    [ app_name        |-> env.APP_NAME,
      app_id          |-> env.APP_ID,
      client_id       |-> env.CLIENT_ID,
      client_secret   |-> env.CLIENT_SECRET,
      client_key      |-> env.CLIENT_KEY,
      client_key_path |-> env.PRIVATE_KEY_PATH,
      webhook_secret  |-> env.WEBHOOK_SECRET ]

\* the empty environment
NoEnv ==
    [ APP_NAME |-> None, APP_ID |-> None, CLIENT_ID |-> None, CLIENT_SECRET |-> None,
      CLIENT_KEY |-> None, PRIVATE_KEY_PATH |-> None, WEBHOOK_SECRET |-> None ]

\* OctoAppConfigBuilder::build()
Build(b) == TryFrom(b)

\* the configurations build() yields for an App id and the given webhook secrets
ConfigsWith(secrets) ==
    LET outcomes == { Build(SetAppId(DefaultBuilder(NoEnv), 1)) }
                      \cup { Build(SetWebhookSecret(SetAppId(DefaultBuilder(NoEnv), 1), s))
                               : s \in secrets }
    IN  { Unwrap(o.res.val) : o \in { x \in outcomes : x.res.ok } }

\* HyperWebhookHandler::new(config): path "/" and no handler
NewServer == [path |-> "/", handler |-> FALSE]
IdleServer == NewServer

(***************************************************************************)
(* Specification SpecBuild: a builder is taken from the environment, its   *)
(* setters are called in any order, and build() ends it.                   *)
(***************************************************************************)
IdleConfig == Unwrap(Build(SetAppId(DefaultBuilder(NoEnv), 1)).res.val)

InitBuild ==
    /\ builder \in { DefaultBuilder(env) : env \in Envs }
    /\ built = None
    /\ config = IdleConfig
    /\ vcall = None
    /\ pcall = None
    /\ server = IdleServer
    /\ req = None
    /\ ocall = None
    /\ shown = None
    /\ tasks = << >>

CallAppName ==
    /\ built = None
    /\ builder' = SetAppName(builder, SomeText)
    /\ UNCHANGED << built, config, vcall, pcall, server, req, ocall, shown, tasks >>

CallAppId ==
    /\ built = None
    /\ \E v \in AppIds : builder' = SetAppId(builder, v)
    /\ UNCHANGED << built, config, vcall, pcall, server, req, ocall, shown, tasks >>

CallClientId ==
    /\ built = None
    /\ builder' = SetClientId(builder, SomeText)
    /\ UNCHANGED << built, config, vcall, pcall, server, req, ocall, shown, tasks >>

CallClientSecret ==
    /\ built = None
    /\ builder' = SetClientSecret(builder, SomeText)
    /\ UNCHANGED << built, config, vcall, pcall, server, req, ocall, shown, tasks >>

CallClientKey ==
    /\ built = None
    /\ \E v \in InlineKeys : builder' = SetClientKey(builder, v)
    /\ UNCHANGED << built, config, vcall, pcall, server, req, ocall, shown, tasks >>

CallClientKeyPath ==
    /\ built = None
    /\ \E v \in KeyPaths : builder' = SetClientKeyPath(builder, v)
    /\ UNCHANGED << built, config, vcall, pcall, server, req, ocall, shown, tasks >>

CallWebhookSecret ==
    /\ built = None
    /\ \E v \in SecretInputs : builder' = SetWebhookSecret(builder, v)
    /\ UNCHANGED << built, config, vcall, pcall, server, req, ocall, shown, tasks >>

CallBuild ==
    /\ built = None
    /\ built' = Some(Build(builder))
    /\ UNCHANGED << builder, config, vcall, pcall, server, req, ocall, shown, tasks >>

NextBuild ==
    \/ CallAppName
    \/ CallAppId
    \/ CallClientId
    \/ CallClientSecret
    \/ CallClientKey
    \/ CallClientKeyPath
    \/ CallWebhookSecret
    \/ CallBuild

SpecBuild == InitBuild /\ [][NextBuild]_vars

(***************************************************************************)
(* C6, C7: the validation of build().                                      *)
(***************************************************************************)
\* the outcome of the build() that ended the builder
Outcome == Unwrap(built)

\* the number of characters of a string
CharCount(s) == Len(s)

\* C6 (as claimed): with every other field in order, build() fails with a
\* webhook-secret error for a secret shorter than 8 characters, succeeds with a
\* warning for a secret of 8 to 15 characters, succeeds without a warning for a
\* secret of 16 or more characters, and a built configuration holds the secret
\* supplied.
C6_SecretLengthRule ==
    (/\ built # None
     /\ IsSome(builder.webhook_secret)
     /\ BuildClientKey(builder).ok
     /\ IsSome(builder.app_id))
    => LET n == CharCount(Unwrap(builder.webhook_secret))
       IN  /\ n < 8 => /\ ~Outcome.res.ok
                       /\ Unwrap(Outcome.res.err).kind = "WebhookSecretError"
           /\ n >= 8 => /\ Outcome.res.ok
                        /\ Unwrap(Outcome.res.val).webhook_secret = builder.webhook_secret
                        /\ Outcome.warned <=> (n < 16)

\* C7 (as claimed): build() fails with MissingField whenever no App id was
\* supplied, whatever the other fields are, and a failed build() yields no
\* configuration.
C7_MissingAppIdAlwaysMissingField ==
    built # None =>
        /\ builder.app_id = None =>
              /\ ~Outcome.res.ok
              /\ Unwrap(Outcome.res.err).kind = "MissingField"
        /\ ~Outcome.res.ok => Outcome.res.val = None

\* C7 (amended): build() fails whenever no App id was supplied, whatever the
\* other fields are; the error is MissingField when the signing key loads (or none
\* is given) and the webhook secret, if any, passes the length check, and is
\* the error of the key or of the secret otherwise, as these are checked before
\* the App id; a failed build() yields no configuration.
C7_MissingAppIdFails ==
    built # None =>
        /\ builder.app_id = None =>
              /\ ~Outcome.res.ok
              /\ Outcome.res.val = None
              /\ (BuildClientKey(builder).ok /\ BuildWebhookSecret(builder).res.ok)
                    => Unwrap(Outcome.res.err).kind = "MissingField"
              /\ ~BuildClientKey(builder).ok
                    => Unwrap(Outcome.res.err).kind \in {"IoError", "JsonWebTokenError"}
              /\ (BuildClientKey(builder).ok /\ ~BuildWebhookSecret(builder).res.ok)
                    => Unwrap(Outcome.res.err).kind = "WebhookSecretError"
        /\ ~Outcome.res.ok => Outcome.res.val = None

\* C7 witness: a build() without App id, with a loadable key file and an
\* acceptable webhook secret, has failed with MissingField
C7_Witness ==
    /\ built # None
    /\ builder.app_id = None
    /\ IsSome(builder.client_key_path)
    /\ IsSome(builder.webhook_secret)
    /\ BuildClientKey(builder).ok
    /\ BuildWebhookSecret(builder).res.ok
    /\ ~Outcome.res.ok
    /\ Unwrap(Outcome.res.err).kind = "MissingField"

(***************************************************************************)
(* C21: the precedence of the key file over the inline key in build().     *)
(***************************************************************************)
\* the errors build() raises for the signing key
KeyErrorKinds == { "IoError", "JsonWebTokenError" }

\* the signing key of a configuration, when it was parsed from the text `text`
KeyParsedFrom(text) == Some([key |-> text.id])

\* C21: when a key-file path is supplied, the inline key, valid or not and given
\* or not, has no part in build(): an unreadable file fails it with IoError, a
\* file that is no RSA PEM fails it with JsonWebTokenError, and with a loadable
\* file it never fails for the key and a built configuration holds the key of
\* the file; when no path is supplied, an invalid inline key fails it with
\* JsonWebTokenError, a valid one is the key of a built configuration, and
\* without an inline key the configuration has no key. A configuration holds
\* the inline key only when no path was supplied.
C21_KeyFileTakesPrecedence ==
    built # None =>
        /\ IsSome(builder.client_key_path) =>
              LET path == Unwrap(builder.client_key_path)
              IN  /\ ~path.readable =>
                        /\ ~Outcome.res.ok
                        /\ Unwrap(Outcome.res.err).kind = "IoError"
                  /\ (path.readable /\ ~path.data.pem) =>
                        /\ ~Outcome.res.ok
                        /\ Unwrap(Outcome.res.err).kind = "JsonWebTokenError"
                  /\ (path.readable /\ path.data.pem) =>
                        /\ Outcome.res.ok
                              => Unwrap(Outcome.res.val).client_key = KeyParsedFrom(path.data)
                        /\ ~Outcome.res.ok
                              => Unwrap(Outcome.res.err).kind \notin KeyErrorKinds
        /\ (builder.client_key_path = None /\ IsSome(builder.client_key)) =>
              LET text == Unwrap(builder.client_key)
              IN  /\ ~text.pem =>
                        /\ ~Outcome.res.ok
                        /\ Unwrap(Outcome.res.err).kind = "JsonWebTokenError"
                  /\ text.pem =>
                        /\ Outcome.res.ok
                              => Unwrap(Outcome.res.val).client_key = KeyParsedFrom(text)
                        /\ ~Outcome.res.ok
                              => Unwrap(Outcome.res.err).kind \notin KeyErrorKinds
        /\ (builder.client_key_path = None /\ builder.client_key = None) =>
              /\ Outcome.res.ok => Unwrap(Outcome.res.val).client_key = None
              /\ ~Outcome.res.ok => Unwrap(Outcome.res.err).kind \notin KeyErrorKinds
        /\ (Outcome.res.ok /\ Unwrap(Outcome.res.val).client_key = KeyParsedFrom(GoodInlineKey))
              => builder.client_key_path = None

\* C21 witness: a build() with a loadable key file and an inline key that is no
\* RSA PEM has succeeded, and the configuration holds the key of the file
C21_Witness ==
    /\ built # None
    /\ builder.client_key_path = Some([readable |-> TRUE, data |-> GoodFileKey])
    /\ builder.client_key = Some(BadInlineKey)
    /\ Outcome.res.ok
    /\ Unwrap(Outcome.res.val).client_key = KeyParsedFrom(GoodFileKey)

(***************************************************************************)
(* Specification SpecVerify: a built configuration checks signatures. The  *)
(* sender signs a body with a secret of its own; the receiver verifies the *)
(* presented signature against the data it received.                       *)
(***************************************************************************)
\* the webhook secrets of the signature check: eight 'a'; the same followed by
\* NUL; seven 'a' and 'b'; four two-byte characters
VerifySecrets ==
    { Rep(Char.a, 8), Rep(Char.a, 8) \o << Char.nul >>,
      Rep(Char.a, 7) \o << Char.b >>, Rep(Char.eacute, 4) }

\* the request bodies of the signature check: byte strings of 'a' and 'b'
VerifyBodies == UNION { [1..k -> {Char.a, Char.b}] : k \in 0..MaxBodyLen }

\* signature headers that are not what the sender computes: the empty string,
\* "sha256", the bare hex digest, "SHA256=" + hex, "sha1=" + hex, " sha256=" + hex,
\* and two that carry the prefix: "sha256=" alone and "sha256=" + hex + "0"
ForgedSignatures(secret, body) ==
    LET hex == HexEncode(HmacSha256(AsBytes(secret), body))
    IN  { << >>,
          SubSeq(Sha256Prefix, 1, 6),
          hex,
          << 83, 72, 65 >> \o SubSeq(Sha256Prefix, 4, 7) \o hex,
          << 115, 104, 97, 49, 61 >> \o hex,
          << 32 >> \o Sha256Prefix \o hex,
          Sha256Prefix,
          Sha256Prefix \o hex \o << 48 >> }

InitVerify ==
    /\ config \in ConfigsWith(VerifySecrets)
    /\ vcall = None
    /\ builder = DefaultBuilder(NoEnv)
    /\ built = None
    /\ pcall = None
    /\ server = IdleServer
    /\ req = None
    /\ ocall = None
    /\ shown = None
    /\ tasks = << >>

\* the sender signs body with secret; the receiver verifies data against it
VerifySigned ==
    /\ vcall = None
    /\ \E secret \in VerifySecrets, body \in VerifyBodies, data \in VerifyBodies :
         LET signature == SignatureFor(secret, body)
         IN  vcall' = Some([ signed    |-> TRUE,
                             secret    |-> secret,
                             body      |-> body,
                             data      |-> data,
                             signature |-> signature,
                             out       |-> WebhookSignatureVerification(
                                               config, data, signature) ])
    /\ UNCHANGED << builder, built, config, pcall, server, req, ocall, shown, tasks >>

\* the receiver verifies data against a header the sender did not compute
VerifyForged ==
    /\ vcall = None
    /\ \E secret \in VerifySecrets, data \in VerifyBodies :
         \E signature \in ForgedSignatures(secret, data) :
            vcall' = Some([ signed    |-> FALSE,
                            secret    |-> secret,
                            body      |-> data,
                            data      |-> data,
                            signature |-> signature,
                            out       |-> WebhookSignatureVerification(
                                              config, data, signature) ])
    /\ UNCHANGED << builder, built, config, pcall, server, req, ocall, shown, tasks >>

NextVerify ==
    \/ VerifySigned
    \/ VerifyForged

SpecVerify == InitVerify /\ [][NextVerify]_vars

Call == Unwrap(vcall)

\* C1 (as claimed): a signature made with secret s over body b verifies on
\* a configuration whose secret is s against b, and fails against any other body
\* and on a configuration with any other secret.
C1_AnyOtherSecretFails ==
    (vcall # None /\ Call.signed) =>
        /\ (config.webhook_secret = Some(Call.secret) /\ Call.data = Call.body)
              => Call.out = Returned(TRUE)
        /\ (config.webhook_secret # Some(Call.secret) \/ Call.data # Call.body)
              => Call.out = Returned(FALSE)

\* whether the configuration's secret yields the HMAC key block of secret
SameKeyBlock(cfg, secret) ==
    /\ IsSome(cfg.webhook_secret)
    /\ KeyBlock(AsBytes(Unwrap(cfg.webhook_secret))) = KeyBlock(AsBytes(secret))

\* C1 (amended): a signature made with secret s over body b verifies on a
\* configuration whose secret is s against b; it fails against any other body,
\* and on a configuration whose secret has another HMAC key block than s (the
\* secret's bytes padded with zero bytes to 64). A secret with the key block of
\* s, such as s followed by NUL characters, verifies like s.
C1_SignatureRoundTrip ==
    (vcall # None /\ Call.signed) =>
        /\ (config.webhook_secret = Some(Call.secret) /\ Call.data = Call.body)
              => Call.out = Returned(TRUE)
        /\ (SameKeyBlock(config, Call.secret) /\ Call.data = Call.body)
              => Call.out = Returned(TRUE)
        /\ (~SameKeyBlock(config, Call.secret) \/ Call.data # Call.body)
              => Call.out = Returned(FALSE)

\* C1 witness: a non-empty body signed with the configured secret was verified
\* and accepted
C1_Witness ==
    /\ vcall # None
    /\ Call.signed
    /\ config.webhook_secret = Some(Call.secret)
    /\ Call.data = Call.body
    /\ Call.body # << >>
    /\ Call.out = Returned(TRUE)

\* C2: the check returns false, without panicking, for every body and signature
\* when no secret is configured, and for every signature that does not start
\* with "sha256=", the empty and the shorter ones included.
C2_NoSecretOrNoPrefixIsFalse ==
    (/\ vcall # None
     /\ \/ config.webhook_secret = None
        \/ Len(Call.signature) < 7
        \/ SubSeq(Call.signature, 1, 7) # Sha256Prefix)
    => Call.out = Returned(FALSE)

\* C2 witness: with a secret configured, a signature shorter than the prefix
\* was turned down
C2_Witness ==
    /\ vcall # None
    /\ config.webhook_secret # None
    /\ Len(Call.signature) < 7
    /\ Call.out = Returned(FALSE)

(***************************************************************************)
(* Specification SpecParse: the envelope parser of either adapter is given *)
(* a document.                                                             *)
(***************************************************************************)
\* an installation member holding an unsigned id
InstallationWithId == JsonObject(Some(JsonScalar("posint", 1)))

\* the documents of the model: every installation member with at most one
\* matching variant, and every set of matching variants with and without an
\* installation id
ParseDocs ==
    { MalformedDoc, NonObjectDoc }
      \cup { ObjectDoc(inst, m) : inst \in Opt(InstallationValues), m \in SetsUpTo(1) }
      \cup { ObjectDoc(inst, m) : inst \in { None, Some(InstallationWithId) },
                                  m \in MatchSets }

InitParse ==
    /\ pcall = None
    /\ config = IdleConfig
    /\ builder = DefaultBuilder(NoEnv)
    /\ built = None
    /\ vcall = None
    /\ server = IdleServer
    /\ req = None
    /\ ocall = None
    /\ shown = None
    /\ tasks = << >>

\* the Hyper adapter parses a body
CallParseWebhook ==
    /\ pcall = None
    /\ \E doc \in ParseDocs :
         pcall' = Some([adapter |-> "hyper", doc |-> doc, out |-> ParseWebhook(doc)])
    /\ UNCHANGED << builder, built, config, vcall, server, req, ocall, shown, tasks >>

\* the Rocket adapter parses a body
CallWebHookFromStr ==
    /\ pcall = None
    /\ \E doc \in ParseDocs :
         pcall' = Some([adapter |-> "rocket", doc |-> doc, out |-> WebHookFromStr(doc)])
    /\ UNCHANGED << builder, built, config, vcall, server, req, ocall, shown, tasks >>

NextParse ==
    \/ CallParseWebhook
    \/ CallWebHookFromStr

SpecParse == InitParse /\ [][NextParse]_vars

Parse == Unwrap(pcall)

\* whether the document has an installation object whose id is an unsigned integer
HasUnsignedInstallationId(doc) ==
    /\ doc.json
    /\ doc.object
    /\ doc.installation # None
    /\ Unwrap(doc.installation).type = "object"
    /\ Unwrap(doc.installation).id # None
    /\ Unwrap(Unwrap(doc.installation).id).type = "posint"

\* the indices of the variants the document matches
MatchingIndices(doc) == { i \in 1..Len(EventVariants) : Matches(EventVariants[i], doc) }

C9_NoMatchIsAnError ==
    (pcall # None /\ MatchingIndices(Parse.doc) = {}) =>
        /\ ~Parse.out.ok
        /\ Parse.out.val = None
        /\ Unwrap(Parse.out.err).kind = "JsonSerializationError"

\* C9 witness: a well-formed object with an installation id that matches no
\* variant was refused
C9_Witness ==
    /\ pcall # None
    /\ HasUnsignedInstallationId(Parse.doc)
    /\ Parse.doc.matches = {}
    /\ ~Parse.out.ok

\* C10: the payload of a parsed envelope is of the earliest declared variant
\* among those the document matches.
C10_FirstDeclaredMatchWins ==
    (pcall # None /\ Parse.out.ok) =>
        \E i \in MatchingIndices(Parse.doc) :
            /\ Unwrap(Parse.out.val).payload.variant = EventVariants[i]
            /\ \A j \in MatchingIndices(Parse.doc) : i <= j

\* C10 witness: a document matching two variants was parsed as the one
\* declared first
C10_Witness ==
    /\ pcall # None
    /\ Cardinality(MatchingIndices(Parse.doc)) = 2
    /\ Parse.out.ok
    /\ \A j \in MatchingIndices(Parse.doc) :
          \E i \in 1..j : EventVariants[i] = Unwrap(Parse.out.val).payload.variant

(***************************************************************************)
(* Specification SpecRoundTrip: an Event value is serialized to JSON and   *)
(* the text is given to the envelope parser.                               *)
(*                                                                         *)
(* An Event value is [variant, shapes, installation, omit_none]: variant   *)
(* is the variant it was built as, installation the Option of the id of    *)
(* its installation field, omit_none whether the payload struct leaves a   *)
(* None installation out of the JSON (skip_serializing_if) or writes null, *)
(* shapes the variants whose payload struct reads the value's JSON, its    *)
(* own among them.                                                         *)
(***************************************************************************)
Event(variant, shapes, installation, omit_none) ==
    [ variant |-> variant, shapes |-> shapes, installation |-> installation,
      omit_none |-> omit_none ]

\* serde_json::to_string(&event) under #[serde(untagged)]: the payload is
\* written as it is, with no tag that names the variant
SerializeEvent(e) ==
    LET inst == IF IsSome(e.installation)
                THEN Some(JsonObject(Some(JsonScalar("posint", Unwrap(e.installation)))))
                ELSE IF e.omit_none THEN None
                ELSE Some(JsonScalar("null", 0))
    IN  ObjectDoc(inst, e.shapes)

\* the Event values whose JSON has the shape of their own variant only
PlainEvents ==
    { Event(v, {v}, inst, omit) :
        v \in VariantNames, inst \in Opt(0..MaxInstId), omit \in BOOLEAN }

\* the Event values whose JSON may have the shape of other variants as well
OverlapEvents ==
    { Event(v, m \cup {v}, inst, TRUE) :
        v \in VariantNames, m \in SetsUpTo(MaxMatches - 1), inst \in {None, Some(1)} }

InitRoundTrip ==
    /\ pcall = None
    /\ config = IdleConfig
    /\ builder = DefaultBuilder(NoEnv)
    /\ built = None
    /\ vcall = None
    /\ server = IdleServer
    /\ req = None
    /\ ocall = None
    /\ shown = None
    /\ tasks = << >>

\* an Event is serialized and the Hyper adapter parses the text
RoundTripParseWebhook ==
    /\ pcall = None
    /\ \E e \in PlainEvents \cup OverlapEvents :
         LET doc == SerializeEvent(e)
         IN  pcall' = Some([adapter |-> "hyper", event |-> e, doc |-> doc,
                            out |-> ParseWebhook(doc)])
    /\ UNCHANGED << builder, built, config, vcall, server, req, ocall, shown, tasks >>

\* an Event is serialized and the Rocket adapter parses the text
RoundTripWebHookFromStr ==
    /\ pcall = None
    /\ \E e \in PlainEvents :
         LET doc == SerializeEvent(e)
         IN  pcall' = Some([adapter |-> "rocket", event |-> e, doc |-> doc,
                            out |-> WebHookFromStr(doc)])
    /\ UNCHANGED << builder, built, config, vcall, server, req, ocall, shown, tasks >>

NextRoundTrip ==
    \/ RoundTripParseWebhook
    \/ RoundTripWebHookFromStr

SpecRoundTrip == InitRoundTrip /\ [][NextRoundTrip]_vars

\* the installation id of an Event value, 0 when it has no installation
InstallationIdOf(e) == IF IsSome(e.installation) THEN Unwrap(e.installation) ELSE 0

\* the position of a variant in the declaration of enum Event
DeclaredAt(v) == CHOOSE i \in 1..Len(EventVariants) : EventVariants[i] = v

\* whether the JSON of the Event value has the shape of a variant declared
\* before its own
ShadowedByEarlierVariant(e) ==
    \E u \in e.shapes : DeclaredAt(u) < DeclaredAt(e.variant)

OctocrabError == [kind |-> "OctocrabError", msg |-> 0]
OctocrabInstallationError(id) == [kind |-> "OctocrabInstallationError", msg |-> id]

\* a variant that goes to the API client without looking for the key
OctocrabWithoutKeyCheck(cfg, build_ok) ==
    IF build_ok /\ IsSome(cfg.client_key)
    THEN [ res |-> Ok([app |-> cfg.app_id, installation |-> None]),
           collaborator |-> << "OctocrabBuilder::build", "Octocrab::installation" >> ]
    ELSE [ res |-> Err(OctocrabError),
           collaborator |-> << "OctocrabBuilder::build" >> ]

\* OctoAppConfig::octocrab(&self): [res |-> the Result, collaborator |-> the
\* calls made to the API client]; build_ok is whether OctocrabBuilder::build
\* succeeds. The client made by oc.installation(..) is dropped: the client
\* returned is the App's.
Octocrab(cfg, build_ok) ==
    IF IsSome(cfg.client_key) THEN
        IF build_ok
        THEN [ res |-> Ok([app |-> cfg.app_id, installation |-> None]),
               collaborator |-> << "OctocrabBuilder::build", "Octocrab::installation" >> ]
        ELSE [ res |-> Err(OctocrabError),
               collaborator |-> << "OctocrabBuilder::build" >> ]
    ELSE [ res |-> Err(MissingField("Client Key")), collaborator |-> << >> ]

\* WebHook::installation(&self): the installation id of the envelope
Installation(webhook) == webhook.installation

\* a call of a client constructor as it starts
Called(fn, webhook) ==
    [ fn |-> fn, webhook |-> webhook, pc |-> "start", exchanges |-> 0,
      collaborator |-> << >>, reported |-> None, out |-> None ]

\* the call has returned out
ReturnedFrom(call, out) == [call EXCEPT !.pc = "done", !.out = Some(out)]

\* OctoAppConfig::octocrab_by_installation(id) up to its await: the token
\* exchange for the installation is started with the API client
OctocrabByInstallation(call, cfg, id) ==
    [call EXCEPT !.pc = "exchange", !.exchanges = @ + 1]

\* the exchange has ended: the API client reports an installation client or a
\* failure, and that is what the call returns
ExchangeDone(call, id, ok) ==
    LET result == IF ok THEN Ok([app |-> 0, installation |-> Some(id)])
                  ELSE Err(OctocrabInstallationError(id))
    IN  ReturnedFrom([call EXCEPT !.reported = Some(result)], result)

\* a variant without the test for installation 0
OctocrabFromConfigNoZeroCheck(webhook, cfg) ==
    OctocrabByInstallation(Called("octocrab_from_config", Some(webhook)), cfg,
                           Installation(webhook))

\* WebHook::octocrab_from_config(&self, config) up to its await
OctocrabFromConfig(webhook, cfg) ==
    LET call == Called("octocrab_from_config", Some(webhook))
        id   == Installation(webhook)
    IN  IF id = 0 THEN ReturnedFrom(call, Err(OctocrabInstallationError(id)))
        ELSE OctocrabByInstallation(call, cfg, id)

(***************************************************************************)
(* Specification SpecInstall: a builder is built, and the client           *)
(* constructors are called on the configuration it yields.                 *)
(***************************************************************************)
\* the builders of the specification: with and without App id, inline key,
\* key file and webhook secret
InstallBuilders ==
    [ app_name        : {None},
      app_id          : Opt({12345}),
      client_id       : {None},
      client_secret   : {None},
      client_key      : Opt(InlineKeys),
      client_key_path : Opt({[readable |-> TRUE, data |-> GoodFileKey]}),
      webhook_secret  : Opt({Rep(Char.a, 7), Rep(Char.a, 8)}) ]

\* the envelopes handed to a handler: a parsed payload and its installation id
Envelopes ==
    { WebHook([variant |-> v], id) : v \in {"Ping", "Issues"}, id \in 0..MaxInstId }

InitInstall ==
    /\ builder \in InstallBuilders
    /\ built = None
    /\ ocall = None
    /\ config = IdleConfig
    /\ vcall = None
    /\ pcall = None
    /\ server = IdleServer
    /\ req = None
    /\ shown = None
    /\ tasks = << >>

\* the configuration build() has yielded
BuiltConfig == Unwrap(Unwrap(built).res.val)

\* config.octocrab() is called
CallOctocrab ==
    /\ built # None
    /\ Unwrap(built).res.ok
    /\ ocall = None
    /\ \E build_ok \in BOOLEAN :
         LET out == Octocrab(BuiltConfig, build_ok)
         IN  ocall' = Some(ReturnedFrom(
                         [Called("octocrab", None) EXCEPT !.collaborator = out.collaborator],
                         out.res))
    /\ UNCHANGED << builder, built, config, vcall, pcall, server, req, shown, tasks >>

\* a handler calls webhook.octocrab_from_config(&config) on a configuration
\* that has a signing key
CallOctocrabFromConfig ==
    /\ built # None
    /\ Unwrap(built).res.ok
    /\ IsSome(BuiltConfig.client_key)
    /\ ocall = None
    /\ \E webhook \in Envelopes : ocall' = Some(OctocrabFromConfig(webhook, BuiltConfig))
    /\ UNCHANGED << builder, built, config, vcall, pcall, server, req, shown, tasks >>

\* the API client ends the token exchange, with a client or with a failure
ExchangeCompletes ==
    /\ ocall # None
    /\ Unwrap(ocall).pc = "exchange"
    /\ \E ok \in BOOLEAN :
         ocall' = Some(ExchangeDone(Unwrap(ocall),
                                    Installation(Unwrap(Unwrap(ocall).webhook)), ok))
    /\ UNCHANGED << builder, built, config, vcall, pcall, server, req, shown, tasks >>

NextInstall ==
    \/ CallBuild
    \/ CallOctocrab
    \/ CallOctocrabFromConfig
    \/ ExchangeCompletes

SpecInstall == InitInstall /\ [][NextInstall]_vars

\* the call of a client constructor that was made
OCall == Unwrap(ocall)

\* C15: octocrab_from_config on an envelope of installation 0 fails at once with
\* the installation error of id 0 and starts no token exchange; on an envelope
\* of another installation it starts exactly one exchange, returns nothing
\* before the exchange has ended, and then returns what the API client
\* reported, a client for that installation or the failure.
C15_InstallationZeroNeverExchanges ==
    (ocall # None /\ OCall.fn = "octocrab_from_config") =>
        LET id == Unwrap(OCall.webhook).installation
        IN  /\ id = 0 =>
                  /\ OCall.pc = "done"
                  /\ OCall.exchanges = 0
                  /\ OCall.reported = None
                  /\ OCall.out = Some(Err(OctocrabInstallationError(0)))
            /\ id # 0 =>
                  /\ OCall.exchanges = 1
                  /\ OCall.pc \in {"exchange", "done"}
                  /\ OCall.pc = "exchange" => OCall.out = None
                  /\ OCall.pc = "done" =>
                        /\ OCall.reported # None
                        /\ OCall.out = OCall.reported
                        /\ Unwrap(OCall.out).ok =>
                              Unwrap(Unwrap(OCall.out).val).installation = Some(id)

\* C15 witness: for an envelope of installation 1 the exchange failed, and the
\* failure was returned after that one exchange
C15_Witness ==
    /\ ocall # None
    /\ OCall.fn = "octocrab_from_config"
    /\ Unwrap(OCall.webhook).installation = 1
    /\ OCall.pc = "done"
    /\ OCall.exchanges = 1
    /\ ~Unwrap(OCall.out).ok

\* C16: a builder with an App id, with neither inline key nor key-file path, and
\* with no webhook secret or one build() accepts, builds into a configuration
\* without signing key; octocrab() on it fails with MissingField and makes no
\* call to the API client.
C16_KeylessConfigBuildsAndOctocrabFails ==
    (/\ built # None
     /\ IsSome(builder.app_id)
     /\ builder.client_key = None
     /\ builder.client_key_path = None
     /\ BuildWebhookSecret(builder).res.ok)
    => /\ Unwrap(built).res.ok
       /\ BuiltConfig.client_key = None
       /\ BuiltConfig.app_id = Unwrap(builder.app_id)
       /\ (ocall # None /\ OCall.fn = "octocrab") =>
             /\ ~Unwrap(OCall.out).ok
             /\ Unwrap(Unwrap(OCall.out).err).kind = "MissingField"
             /\ OCall.collaborator = << >>
             /\ OCall.exchanges = 0

\* C16 witness: octocrab() was called on a configuration built with an App id
\* and a webhook secret and no key, and failed with MissingField
C16_Witness ==
    /\ built # None
    /\ IsSome(builder.app_id)
    /\ builder.client_key = None
    /\ builder.client_key_path = None
    /\ IsSome(builder.webhook_secret)
    /\ Unwrap(built).res.ok
    /\ ocall # None
    /\ OCall.fn = "octocrab"
    /\ Unwrap(Unwrap(OCall.out).err).kind = "MissingField"

(***************************************************************************)
(* Display and Debug (src/config.rs). A rendered text is the sequence of   *)
(* its pieces: the literal parts of the format string and the values put   *)
(* between them. OctoAppConfig implements Display and has no Debug; the    *)
(* builder derives Debug and has no Display.                               *)
(***************************************************************************)
\* impl Display for OctoAppConfig:
\* "OctoAppConfig {{ app_name: {:?}, app_id: {} }}" of app_name and app_id
DisplayConfig(cfg) ==
    << "OctoAppConfig { app_name: ", cfg.app_name, ", app_id: ", cfg.app_id, " }" >>

\* #[derive(Debug)] of OctoAppConfigBuilder: the name of the struct and every
\* field with its value
DebugBuilder(b) ==
    << "OctoAppConfigBuilder { app_name: ", b.app_name,
       ", app_id: ", b.app_id,
       ", client_id: ", b.client_id,
       ", client_secret: ", b.client_secret,
       ", client_key: ", b.client_key,
       ", client_key_path: ", b.client_key_path,
       ", webhook_secret: ", b.webhook_secret, " }" >>

(***************************************************************************)
(* Specification SpecShow: a builder is rendered with {:?}, it is built,   *)
(* and the configuration is rendered with {}.                              *)
(***************************************************************************)
\* the secret values of the specification
ShownSecrets == { Rep(Char.a, 8), Rep(Char.b, 8) }

\* the builders of the specification
ShowBuilders ==
    [ app_name        : Opt({SomeText}),
      app_id          : Opt({1}),
      client_id       : {None},
      client_secret   : Opt(ShownSecrets),
      client_key      : Opt(InlineKeys),
      client_key_path : {None},
      webhook_secret  : Opt(ShownSecrets) ]

InitShow ==
    /\ builder \in ShowBuilders
    /\ built = None
    /\ shown = None
    /\ config = IdleConfig
    /\ vcall = None
    /\ pcall = None
    /\ server = IdleServer
    /\ req = None
    /\ ocall = None
    /\ tasks = << >>

\* format!("{:?}", builder)
ShowBuilder ==
    /\ shown = None
    /\ shown' = Some([of |-> "builder", text |-> DebugBuilder(builder)])
    /\ UNCHANGED << builder, built, config, vcall, pcall, server, req, ocall, tasks >>

\* format!("{}", config) of the configuration build() has yielded
ShowConfig ==
    /\ shown = None
    /\ built # None
    /\ Unwrap(built).res.ok
    /\ shown' = Some([of |-> "config", text |-> DisplayConfig(BuiltConfig)])
    /\ UNCHANGED << builder, built, config, vcall, pcall, server, req, ocall, tasks >>

NextShow ==
    \/ CallBuild
    \/ ShowBuilder
    \/ ShowConfig

SpecShow == InitShow /\ [][NextShow]_vars

\* the builders that differ from b at most in the secret fields
BuilderSecretVariants(b) ==
    { [b EXCEPT !.webhook_secret = w, !.client_secret = c, !.client_key = k] :
        w \in Opt(ShownSecrets), c \in Opt(ShownSecrets), k \in Opt(InlineKeys) }

\* the configurations that differ from cfg at most in the secret fields
ConfigSecretVariants(cfg) ==
    { [cfg EXCEPT !.webhook_secret = w, !.client_secret = c, !.client_key = k] :
        w \in Opt(ShownSecrets), c \in Opt(ShownSecrets),
        k \in Opt({ Unwrap(FromRsaPem(GoodInlineKey).val),
                    Unwrap(FromRsaPem(GoodFileKey).val) }) }

\* C18 (as claimed): a rendering of the builder or of the configuration is the
\* rendering of every builder, or configuration, that differs from it only in
\* webhook secret, client secret or signing key.
C18_RenderingsHideSecrets ==
    shown # None =>
        /\ Unwrap(shown).of = "builder" =>
              \A b \in BuilderSecretVariants(builder) :
                  DebugBuilder(b) = Unwrap(shown).text
        /\ Unwrap(shown).of = "config" =>
              \A cfg \in ConfigSecretVariants(BuiltConfig) :
                  DisplayConfig(cfg) = Unwrap(shown).text

(***************************************************************************)
(* The webhook pipeline of the two adapters.                               *)
(*                                                                         *)
(* A request is [method, path, header, body]: header is the Option of the  *)
(* X-Hub-Signature-256 header, [str |-> whether its value is visible ASCII *)
(* (HeaderValue::to_str succeeds), value |-> the text]; body is            *)
(* [readable |-> whether the body arrives whole, bytes |-> its bytes,      *)
(*  oversize |-> whether it exceeds the size limit the deployment sets     *)
(*    (Rocket's "json" data limit; the Hyper adapter has no limit at all), *)
(*  doc |-> the document serde_json makes of the text].                    *)
(* What is done for a request is kept with it: pc is the await point the   *)
(* handling has reached, bodyRead, verified, parsed and handlerCalls say   *)
(* what has happened so far, handlerResult is the Option of whether the    *)
(* Hyper handler returned Ok, resp is the response sent.                   *)
(***************************************************************************)
SignatureError == [kind |-> "SignatureError", msg |-> 0]
LimitExceeded == [kind |-> "LimitExceeded", msg |-> 0]

\* the HTTP status codes the adapters use
Status ==
    [ Ok |-> 200, BadRequest |-> 400, Unauthorized |-> 401, NotFound |-> 404,
      PayloadTooLarge |-> 413, InternalServerError |-> 500 ]

\* ghhyper::errors::error_to_response(error): the response the Hyper adapter
\* maps an OctoAppError to (handle_request builds its responses itself and
\* never calls it)
ErrorToResponse(error) ==
    IF error.kind = "SignatureError"
    THEN [status |-> Status.Unauthorized, body |-> "Unauthorized"]
    ELSE IF error.kind = "LimitExceeded"
    THEN [status |-> Status.PayloadTooLarge, body |-> "Payload too large"]
    ELSE IF error.kind = "IoError"
    THEN [status |-> Status.InternalServerError, body |-> "IO error"]
    ELSE [status |-> Status.BadRequest, body |-> "Bad request"]

RECURSIVE Utf8Valid(_)
\* std::str::from_utf8(bytes).is_ok(), for sequences of up to three bytes
Utf8Valid(bytes) ==
    LET cont(k) == Len(bytes) >= k /\ bytes[k] >= 128 /\ bytes[k] <= 191
    IN  IF bytes = << >> THEN TRUE
        ELSE IF bytes[1] < 128 THEN Utf8Valid(Tail(bytes))
        ELSE IF bytes[1] >= 194 /\ bytes[1] <= 223
             THEN cont(2) /\ Utf8Valid(SubSeq(bytes, 3, Len(bytes)))
        ELSE IF bytes[1] >= 224 /\ bytes[1] <= 239
             THEN cont(2) /\ cont(3) /\ Utf8Valid(SubSeq(bytes, 4, Len(bytes)))
        ELSE FALSE

\* HyperWebhookHandler::path
SetPath(srv, path) == [srv EXCEPT !.path = path]
\* HyperWebhookHandler::on_event
OnEvent(srv) == [srv EXCEPT !.handler = TRUE]

\* a request as it arrives, nothing done for it yet
Arrived(adapter, request) ==
    [ adapter      |-> adapter,
      request      |-> request,
      pc           |-> "start",
      signature    |-> None,
      bodyRead     |-> FALSE,
      verified     |-> None,
      parsed       |-> None,
      webhook      |-> None,
      error        |-> None,
      handlerCalls |-> 0,
      handlerResult |-> None,
      resp         |-> None ]

\* the response is sent and the handling of the request ends
Respond(st, status, body) ==
    [st EXCEPT !.pc = "done", !.resp = Some([status |-> status, body |-> body])]

\* a variant that answers a missing signature header with 400
HyperStartMissingHeaderBadRequest(srv, st) ==
    LET r == st.request
    IN  IF r.method # "POST" \/ r.path # srv.path
        THEN Respond(st, Status.NotFound, "Not Found")
        ELSE IF r.header = None \/ ~Unwrap(r.header).str
        THEN Respond(st, Status.BadRequest, "Invalid signature header")
        ELSE [st EXCEPT !.pc = "body", !.signature = Some(Unwrap(r.header).value)]

\* a variant that looks for the signature header before the method and path
HyperStartHeaderFirst(srv, st) ==
    LET r == st.request
    IN  IF r.header = None
        THEN Respond(st, Status.Unauthorized, "Missing X-Hub-Signature-256 header")
        ELSE IF ~Unwrap(r.header).str
        THEN Respond(st, Status.BadRequest, "Invalid signature header")
        ELSE IF r.method # "POST" \/ r.path # srv.path
        THEN Respond(st, Status.NotFound, "Not Found")
        ELSE [st EXCEPT !.pc = "body", !.signature = Some(Unwrap(r.header).value)]

\* handle_request up to the first await: the method and path check and the
\* signature header
HyperStart(srv, st) ==
    LET r == st.request
    IN  IF r.method # "POST" \/ r.path # srv.path
        THEN Respond(st, Status.NotFound, "Not Found")
        ELSE IF r.header = None
        THEN Respond(st, Status.Unauthorized, "Missing X-Hub-Signature-256 header")
        ELSE IF ~Unwrap(r.header).str
        THEN Respond(st, Status.BadRequest, "Invalid signature header")
        ELSE [st EXCEPT !.pc = "body", !.signature = Some(Unwrap(r.header).value)]

\* a variant that hands the body to the handler although it did not parse
HyperBodyDispatchUnparsed(cfg, srv, st) ==
    LET body == st.request.body
        read == [st EXCEPT !.bodyRead = TRUE]
        out  == WebhookSignatureVerification(cfg, body.bytes, Unwrap(st.signature))
        checked == [read EXCEPT !.verified = Some(out.ret)]
        parse == ParseWebhook(body.doc)
        done == [checked EXCEPT !.parsed = Some(parse.ok), !.webhook = parse.val]
    IN  IF ~body.readable
        THEN Respond(st, Status.BadRequest, "Failed to read body")
        ELSE IF ~out.ret
        THEN Respond(checked, Status.Unauthorized, "Signature verification failed")
        ELSE IF srv.handler
        THEN [done EXCEPT !.pc = "handler", !.handlerCalls = @ + 1]
        ELSE Respond(done, Status.Ok, "OK")

\* handle_request from the body's arrival to the call of the handler: the
\* signature check, the UTF-8 check, the parse, the dispatch
HyperBody(cfg, srv, st) ==
    LET body == st.request.body
        read == [st EXCEPT !.bodyRead = TRUE]
        out  == WebhookSignatureVerification(cfg, body.bytes, Unwrap(st.signature))
        checked == [read EXCEPT !.verified = Some(out.ret)]
        parse == ParseWebhook(body.doc)
        done == [checked EXCEPT !.parsed = Some(parse.ok), !.webhook = parse.val]
    IN  IF ~body.readable
        THEN Respond(st, Status.BadRequest, "Failed to read body")
        ELSE IF out.panic
        THEN [read EXCEPT !.pc = "panicked"]
        ELSE IF ~out.ret
        THEN Respond(checked, Status.Unauthorized, "Signature verification failed")
        ELSE IF ~Utf8Valid(body.bytes)
        THEN Respond(checked, Status.BadRequest, "Invalid UTF-8")
        ELSE IF ~parse.ok
        THEN Respond([done EXCEPT !.error = parse.err],
                     Status.BadRequest, "Invalid webhook payload")
        ELSE IF srv.handler
        THEN [done EXCEPT !.pc = "handler", !.handlerCalls = @ + 1]
        ELSE Respond(done, Status.Ok, "OK")

\* a variant that answers 200 whatever the handler returned
HyperHandlerDoneSwallowsError(st, ok) ==
    Respond([st EXCEPT !.handlerResult = Some(ok)], Status.Ok, "OK")

\* handle_request after the handler's future has completed, with Ok or an error
HyperHandlerDone(st, ok) ==
    LET returned == [st EXCEPT !.handlerResult = Some(ok)]
    IN  IF ok THEN Respond(returned, Status.Ok, "OK")
        ELSE Respond(returned, Status.InternalServerError, "Internal server error")

\* a data guard's Outcome::Error((status, error)): Rocket answers with status
OutcomeError(st, status, error) ==
    [st EXCEPT !.pc = "done", !.error = Some(error),
               !.resp = Some([status |-> status, body |-> "catcher"])]

\* FromData for WebHook::from_data up to the first await: the managed state
\* (an OctoAppState is managed, as the adapter requires) and the signature header
RocketStart(st) ==
    LET r == st.request
    IN  IF r.header = None
        THEN OutcomeError(st, Status.Unauthorized, SignatureError)
        ELSE [st EXCEPT !.pc = "body", !.signature = Some(Unwrap(r.header).value)]

\* WebHook::from_data from the body's arrival on, and the Outcome made of its
\* result: the capped read into a String, the signature check, the parse
RocketBody(cfg, st) ==
    LET body == st.request.body
        read == [st EXCEPT !.bodyRead = TRUE]
        out  == WebhookSignatureVerification(cfg, body.bytes, Unwrap(st.signature))
        checked == [read EXCEPT !.verified = Some(out.ret)]
        parse == WebHookFromStr(body.doc)
        done == [checked EXCEPT !.parsed = Some(parse.ok), !.webhook = parse.val]
    IN  IF ~body.readable
        THEN OutcomeError(st, Status.BadRequest, IoError)
        ELSE IF ~Utf8Valid(body.bytes)
        THEN OutcomeError(read, Status.BadRequest, IoError)
        ELSE IF body.oversize
        THEN OutcomeError(read, Status.BadRequest, LimitExceeded)
        ELSE IF out.panic
        THEN [read EXCEPT !.pc = "panicked"]
        ELSE IF ~out.ret
        THEN OutcomeError(checked, Status.BadRequest, SignatureError)
        ELSE IF ~parse.ok
        THEN OutcomeError(done, Status.BadRequest, Unwrap(parse.err))
        ELSE [done EXCEPT !.pc = "handler", !.handlerCalls = @ + 1]

\* the route's function has returned its response
RocketHandlerDone(st, status) == Respond(st, status, "route")

\* the texts of #[error("...")] of OctoAppError, before the argument
ErrorPrefix ==
    [ MissingField           |-> "Missing required field: ",
      SignatureError         |-> "Signature Error: ",
      WebhookSecretError     |-> "Webhook Secret Error: ",
      IoError                |-> "IO Error: ",
      JsonSerializationError |-> "JSON Serde Error: ",
      JsonWebTokenError      |-> "Json Web Token Error: " ]

\* OctoAppError::to_string(), the Display thiserror derives: the text of the
\* variant with its argument put in
ErrorToString(error) ==
    IF error.kind = "LimitExceeded" THEN << "Data limit exceeded" >>
    ELSE IF error.kind = "UnknownError" THEN << "Unknown Error" >>
    ELSE << ErrorPrefix[error.kind], error.msg >>

\* impl Responder for OctoAppError (respond_to): what a route that returns
\* Err(error) sends. The JSON body is OctoAppApiError { message, status } with
\* the error's text in status; the response status comes from the attribute
\* #[response(status = 500)] of ApiResponse::InternalServerError
RespondTo(error) ==
    [ status |-> Status.InternalServerError,
      body   |-> [ message |-> "Internal Server Error", status |-> ErrorToString(error) ] ]

\* the route's function has returned Err(error)
RocketHandlerFailed(st, error) ==
    [st EXCEPT !.pc = "done", !.error = Some(error), !.resp = Some(RespondTo(error))]

(***************************************************************************)
(* Specification Spec: a server of either adapter, set up with a built     *)
(* configuration, handles a request.                                       *)
(***************************************************************************)
\* the secret of the server's configuration, and another one a sender may use
ServerSecret == Rep(Char.a, 8)
OtherSecret == Rep(Char.a, 7) \o << Char.b >>

\* a ping payload of installation 1; an object that matches no variant; an
\* object that matches two variants and has no installation
PingDoc == ObjectDoc(Some(InstallationWithId), {"Ping"})
UnknownDoc == ObjectDoc(Some(InstallationWithId), {})
OverlapDoc == ObjectDoc(None, {"IssueComment", "Issues"})

Body(readable, bytes, oversize, doc) ==
    [readable |-> readable, bytes |-> bytes, oversize |-> oversize, doc |-> doc]

\* the request bodies of the model: one lost in transit; three JSON objects,
\* one of them also over the limit; text that is no JSON; bytes that are no UTF-8
PipelineBodies ==
    { Body(FALSE, << >>, FALSE, MalformedDoc),
      Body(TRUE, << Char.a >>, FALSE, PingDoc),
      Body(TRUE, << Char.a >>, TRUE, PingDoc),
      Body(TRUE, << Char.b >>, FALSE, UnknownDoc),
      Body(TRUE, << Char.a, Char.b >>, FALSE, OverlapDoc),
      Body(TRUE, << Char.b, Char.a >>, FALSE, MalformedDoc),
      Body(TRUE, << 255 >>, FALSE, MalformedDoc) }

\* the signature headers a request for the given body may carry: none, one
\* that is no visible ASCII, the signature under either secret, and two
\* malformed ones
PipelineHeaders(bytes) ==
    { None, Some([str |-> FALSE, value |-> << >>]) }
      \cup { Some([str |-> TRUE, value |-> v]) :
               v \in { SignatureFor(ServerSecret, bytes),
                       SignatureFor(OtherSecret, bytes),
                       HexEncode(HmacSha256(AsBytes(ServerSecret), bytes)),
                       Sha256Prefix } }

\* the requests a Hyper server receives
HyperRequests ==
    { [method |-> m, path |-> p, header |-> h, body |-> b] :
        m \in {"POST", "GET"}, p \in {"/", "/github"},
        h \in UNION { PipelineHeaders(x.bytes) : x \in PipelineBodies },
        b \in PipelineBodies }

\* the requests Rocket routes to the webhook route of a server: POST requests
\* to the route's path; Rocket keeps only header values that are text
RocketRequests(srv) ==
    { r \in HyperRequests :
        /\ r.method = "POST"
        /\ r.path = srv.path
        /\ r.header # None => Unwrap(r.header).str }

\* the errors a route of the model returns: a field missing in the
\* configuration (two of them), a failed check of its own (two texts)
RouteErrors ==
    { MissingField("AppID"), MissingField("Client Key"),
      [SignatureError EXCEPT !.msg = "Failed to validate the request signature"],
      [SignatureError EXCEPT !.msg = "Missing X-Hub-Signature-256 header"] }

\* the set-ups of a server: new(config), then path() and on_event() or not
Servers ==
    { NewServer, SetPath(NewServer, "/github"), OnEvent(NewServer),
      OnEvent(SetPath(NewServer, "/github")) }

Init ==
    /\ config \in ConfigsWith({ServerSecret})
    /\ server \in Servers
    /\ req = None
    /\ builder = DefaultBuilder(NoEnv)
    /\ built = None
    /\ vcall = None
    /\ pcall = None
    /\ ocall = None
    /\ shown = None
    /\ tasks = << >>

InFlight == Unwrap(req)

\* hyper hands a request to handle_request
HyperReceive ==
    /\ req = None
    /\ \E r \in HyperRequests : req' = Some(Arrived("hyper", r))
    /\ UNCHANGED << builder, built, config, vcall, pcall, server, ocall, shown, tasks >>

\* handle_request runs to the await of the body
HyperCheckHeader ==
    /\ req # None
    /\ InFlight.adapter = "hyper"
    /\ InFlight.pc = "start"
    /\ req' = Some(HyperStart(server, InFlight))
    /\ UNCHANGED << builder, built, config, vcall, pcall, server, ocall, shown, tasks >>

\* the body has arrived (or failed to): handle_request runs to the await of
\* the handler, or to its response
HyperReadBody ==
    /\ req # None
    /\ InFlight.adapter = "hyper"
    /\ InFlight.pc = "body"
    /\ req' = Some(HyperBody(config, server, InFlight))
    /\ UNCHANGED << builder, built, config, vcall, pcall, server, ocall, shown, tasks >>

\* the handler's future completes, with Ok or with an error
HyperHandlerReturns ==
    /\ req # None
    /\ InFlight.adapter = "hyper"
    /\ InFlight.pc = "handler"
    /\ \E ok \in BOOLEAN : req' = Some(HyperHandlerDone(InFlight, ok))
    /\ UNCHANGED << builder, built, config, vcall, pcall, server, ocall, shown, tasks >>

\* Rocket calls the data guard of the webhook route
RocketReceive ==
    /\ req = None
    /\ \E r \in RocketRequests(server) : req' = Some(Arrived("rocket", r))
    /\ UNCHANGED << builder, built, config, vcall, pcall, server, ocall, shown, tasks >>

\* from_data runs to the await of the body
RocketCheckHeader ==
    /\ req # None
    /\ InFlight.adapter = "rocket"
    /\ InFlight.pc = "start"
    /\ req' = Some(RocketStart(InFlight))
    /\ UNCHANGED << builder, built, config, vcall, pcall, server, ocall, shown, tasks >>

\* the body has arrived (or failed to): from_data runs to its Outcome
RocketReadBody ==
    /\ req # None
    /\ InFlight.adapter = "rocket"
    /\ InFlight.pc = "body"
    /\ req' = Some(RocketBody(config, InFlight))
    /\ UNCHANGED << builder, built, config, vcall, pcall, server, ocall, shown, tasks >>

\* the route's function returns
RocketHandlerReturns ==
    /\ req # None
    /\ InFlight.adapter = "rocket"
    /\ InFlight.pc = "handler"
    /\ \E status \in {Status.Ok, Status.InternalServerError} :
         req' = Some(RocketHandlerDone(InFlight, status))
    /\ UNCHANGED << builder, built, config, vcall, pcall, server, ocall, shown, tasks >>

\* the route's function, of type OctoAppResult<_>, returns an error
RocketHandlerFails ==
    /\ req # None
    /\ InFlight.adapter = "rocket"
    /\ InFlight.pc = "handler"
    /\ \E error \in RouteErrors : req' = Some(RocketHandlerFailed(InFlight, error))
    /\ UNCHANGED << builder, built, config, vcall, pcall, server, ocall, shown, tasks >>

Next ==
    \/ HyperReceive
    \/ HyperCheckHeader
    \/ HyperReadBody
    \/ HyperHandlerReturns
    \/ RocketReceive
    \/ RocketCheckHeader
    \/ RocketReadBody
    \/ RocketHandlerReturns
    \/ RocketHandlerFails

Spec == Init /\ [][Next]_vars

(***************************************************************************)
(* C3, C4, C5: the pipeline's rejections and its dispatch.                 *)
(***************************************************************************)
\* the request in flight is a POST to the webhook route
ToWebhookRoute == InFlight.request.method = "POST" /\ InFlight.request.path = server.path

\* the request in flight carries a signature header with a text value
HasSignatureText ==
    /\ InFlight.request.header # None
    /\ Unwrap(InFlight.request.header).str

\* the configuration accepts the header of the request in flight for its body
SignatureAccepted ==
    WebhookSignatureVerification(config, InFlight.request.body.bytes,
                                 Unwrap(InFlight.request.header).value).ret

\* the status of the response to the request in flight
ResponseStatus == Unwrap(InFlight.resp).status

\* C3 (as claimed): in both adapters, a POST to the webhook route whose body
\* arrives (whole, as text, within the limit) and whose signature header does
\* not verify against it is answered with 401 Unauthorized.
C3_BadSignatureIsUnauthorized ==
    (/\ req # None
     /\ InFlight.pc = "done"
     /\ ToWebhookRoute
     /\ HasSignatureText
     /\ InFlight.request.body.readable
     /\ Utf8Valid(InFlight.request.body.bytes)
     /\ ~InFlight.request.body.oversize
     /\ ~SignatureAccepted)
    => ResponseStatus = Status.Unauthorized

\* C4: in the Hyper pipeline the handler is invoked for a request only if the
\* request is a POST to the configured path, carries a signature header, has
\* a body the signature check accepts and the parser parses; and it is invoked
\* at most once for a request.
C4_HyperDispatchOnlyAfterChecks ==
    (req # None /\ InFlight.adapter = "hyper") =>
        /\ InFlight.handlerCalls <= 1
        /\ InFlight.handlerCalls > 0 =>
              /\ ToWebhookRoute
              /\ HasSignatureText
              /\ InFlight.request.body.readable
              /\ SignatureAccepted
              /\ Utf8Valid(InFlight.request.body.bytes)
              /\ ParseWebhook(InFlight.request.body.doc).ok
              /\ InFlight.webhook = ParseWebhook(InFlight.request.body.doc).val

\* C4 witness: the Hyper handler was invoked for a request and has returned
C4_Witness ==
    /\ req # None
    /\ InFlight.adapter = "hyper"
    /\ InFlight.handlerCalls = 1
    /\ InFlight.pc = "done"

MaxConnections == 2

\* a variant that keeps the signature of the request being handled in one
\* place shared by all tasks
StoreTaskSharedSignature(ts, t, st) ==
    [ u \in DOMAIN ts |->
        IF u = t THEN Some(st)
        ELSE IF ts[u] # None /\ Unwrap(ts[u]).signature # None /\ st.signature # None
        THEN Some([Unwrap(ts[u]) EXCEPT !.signature = st.signature])
        ELSE ts[u] ]

\* the future of task t moves on: what it holds of its request is its own
StoreTask(ts, t, st) == [ts EXCEPT ![t] = Some(st)]

\* the body of a ping payload, and that of an object that matches no variant
PingBody == Body(TRUE, << Char.a >>, FALSE, PingDoc)
UnknownBody == Body(TRUE, << Char.b >>, FALSE, UnknownDoc)

\* the requests the connections carry: a GET; POSTs without the header, with
\* the signature under the server's secret and under another one
ServeRequests ==
    { [method |-> "GET", path |-> "/", header |-> None, body |-> PingBody],
      [method |-> "POST", path |-> "/", header |-> None, body |-> PingBody] }
      \cup { [method |-> "POST", path |-> "/",
              header |-> Some([str |-> TRUE, value |-> SignatureFor(secret, b.bytes)]),
              body |-> b] :
                secret \in {ServerSecret, OtherSecret}, b \in {PingBody, UnknownBody} }

InitServe ==
    /\ config \in ConfigsWith({ServerSecret})
    /\ server \in { NewServer, OnEvent(NewServer), OnEvent(SetPath(NewServer, "/github")) }
    /\ tasks = [t \in 1..MaxConnections |-> None]
    /\ builder = DefaultBuilder(NoEnv)
    /\ built = None
    /\ vcall = None
    /\ pcall = None
    /\ req = None
    /\ ocall = None
    /\ shown = None

\* the request task t is handling
Handling(t) == Unwrap(tasks[t])

\* a request arrives on the connection of task t: handle_request is called
TaskReceive(t) ==
    /\ tasks[t] = None
    /\ \E r \in ServeRequests : tasks' = StoreTask(tasks, t, Arrived("hyper", r))
    /\ UNCHANGED << builder, built, config, vcall, pcall, server, req, ocall, shown >>

\* handle_request of task t runs to the await of the body
TaskCheckHeader(t) ==
    /\ tasks[t] # None
    /\ Handling(t).pc = "start"
    /\ tasks' = StoreTask(tasks, t, HyperStart(server, Handling(t)))
    /\ UNCHANGED << builder, built, config, vcall, pcall, server, req, ocall, shown >>

\* the body of task t's request has arrived
TaskReadBody(t) ==
    /\ tasks[t] # None
    /\ Handling(t).pc = "body"
    /\ tasks' = StoreTask(tasks, t, HyperBody(config, server, Handling(t)))
    /\ UNCHANGED << builder, built, config, vcall, pcall, server, req, ocall, shown >>

\* the handler's future of task t completes
TaskHandlerReturns(t) ==
    /\ tasks[t] # None
    /\ Handling(t).pc = "handler"
    /\ \E ok \in BOOLEAN : tasks' = StoreTask(tasks, t, HyperHandlerDone(Handling(t), ok))
    /\ UNCHANGED << builder, built, config, vcall, pcall, server, req, ocall, shown >>

\* the response of task t is written; its connection waits for the next request
TaskResponds(t) ==
    /\ tasks[t] # None
    /\ Handling(t).pc = "done"
    /\ tasks' = [tasks EXCEPT ![t] = None]
    /\ UNCHANGED << builder, built, config, vcall, pcall, server, req, ocall, shown >>

NextServe ==
    \/ \E t \in 1..MaxConnections : TaskReceive(t)
    \/ \E t \in 1..MaxConnections : TaskCheckHeader(t)
    \/ \E t \in 1..MaxConnections : TaskReadBody(t)
    \/ \E t \in 1..MaxConnections : TaskHandlerReturns(t)
    \/ \E t \in 1..MaxConnections : TaskResponds(t)

SpecServe == InitServe /\ [][NextServe]_vars

\* handle_request run on its own for a request, up to the step the given
\* state has reached, with a handler that returns ok
HandledAlone(cfg, srv, request, ok, pc) ==
    LET arrived   == Arrived("hyper", request)
        atBody    == HyperStart(srv, arrived)
        atHandler == IF atBody.pc = "body" THEN HyperBody(cfg, srv, atBody) ELSE atBody
        atEnd     == IF atHandler.pc = "handler" THEN HyperHandlerDone(atHandler, ok)
                     ELSE atHandler
    IN  IF pc = "start" THEN arrived
        ELSE IF pc = "body" THEN atBody
        ELSE IF pc = "handler" THEN atHandler
        ELSE atEnd

\* every request in flight is where handling it alone would have brought it:
\* same response, same invocations of the handler
ServedAsIfAlone ==
    \A t \in 1..MaxConnections :
        tasks[t] # None =>
            \E ok \in BOOLEAN :
                LET alone == HandledAlone(config, server, Handling(t).request, ok,
                                          Handling(t).pc)
                IN  /\ Handling(t).resp = alone.resp
                    /\ Handling(t).handlerCalls = alone.handlerCalls
                    /\ Handling(t).handlerResult = alone.handlerResult
                    /\ Handling(t).pc = alone.pc

\* C20: under every interleaving of the tasks of a Hyper server, the response
\* to each request and whether its handler is invoked are those of handling
\* that request alone, and no step changes the shared configuration, path or
\* handler.
C20_RequestsAreIsolated ==
    /\ []ServedAsIfAlone
    /\ [][config' = config /\ server' = server]_vars

\* C20 witness: while one task waits for its handler after its request was
\* accepted, another has turned down a request signed with another secret
C20_Witness ==
    \E t, u \in 1..MaxConnections :
        /\ t # u
        /\ tasks[t] # None
        /\ tasks[u] # None
        /\ Handling(t).pc = "handler"
        /\ Handling(u).pc = "done"
        /\ Unwrap(Handling(u).resp).status = Status.Unauthorized
        /\ Handling(u).verified = Some(FALSE)

(***************************************************************************)
(* C12, C13, C14, C17, C19: the statuses and the bodies of the responses.  *)
(***************************************************************************)
\* C12: in the Hyper pipeline, once the handler has been invoked for a request
\* nothing is answered before it returns, and the response is then 200 OK
\* exactly when it returned Ok and 500 Internal Server Error exactly when it
\* returned an error.
C12_HyperStatusFollowsHandler ==
    (req # None /\ InFlight.adapter = "hyper" /\ InFlight.handlerCalls > 0) =>
        /\ InFlight.pc \in {"handler", "done"}
        /\ InFlight.pc = "handler" =>
              /\ InFlight.resp = None
              /\ InFlight.handlerResult = None
        /\ InFlight.pc = "done" =>
              /\ InFlight.handlerResult # None
              /\ ResponseStatus \in {Status.Ok, Status.InternalServerError}
              /\ ResponseStatus = Status.Ok <=> InFlight.handlerResult = Some(TRUE)
              /\ ResponseStatus = Status.InternalServerError
                    <=> InFlight.handlerResult = Some(FALSE)

\* C12 witness: the Hyper handler returned an error and 500 was answered
C12_Witness ==
    /\ req # None
    /\ InFlight.adapter = "hyper"
    /\ InFlight.handlerCalls = 1
    /\ InFlight.handlerResult = Some(FALSE)
    /\ InFlight.pc = "done"
    /\ ResponseStatus = Status.InternalServerError

\* C13 (as claimed): in both adapters, a POST to the webhook route with a
\* signature header whose body arrives and exceeds the size limit is answered
\* with 413 Payload Too Large, and its body is never signature-checked, parsed
\* or handed to the handler.
C13_OversizeIsPayloadTooLarge ==
    (/\ req # None
     /\ ToWebhookRoute
     /\ HasSignatureText
     /\ InFlight.request.body.readable
     /\ InFlight.request.body.oversize)
    => /\ InFlight.verified = None
       /\ InFlight.parsed = None
       /\ InFlight.handlerCalls = 0
       /\ InFlight.pc = "done" => ResponseStatus = Status.PayloadTooLarge

\* C14: in the Hyper pipeline a request whose method is not POST or whose path
\* is not the configured one is answered with 404 Not Found in the first step,
\* whatever its header and body are: its body is not read, its signature not
\* checked, and the handler is not invoked.
C14_HyperWrongRouteIsNotFound ==
    (req # None /\ InFlight.adapter = "hyper" /\ ~ToWebhookRoute) =>
        /\ InFlight.pc \in {"start", "done"}
        /\ ~InFlight.bodyRead
        /\ InFlight.signature = None
        /\ InFlight.verified = None
        /\ InFlight.parsed = None
        /\ InFlight.handlerCalls = 0
        /\ InFlight.pc = "done" => ResponseStatus = Status.NotFound

\* C14 witness: a GET without the signature header was answered with 404
C14_Witness ==
    /\ req # None
    /\ InFlight.adapter = "hyper"
    /\ InFlight.request.method = "GET"
    /\ InFlight.request.path = server.path
    /\ InFlight.request.header = None
    /\ InFlight.pc = "done"
    /\ ResponseStatus = Status.NotFound

\* the kind of rejection of a request the Hyper pipeline has turned down: the
\* first check of the pipeline it did not pass
HyperRejection(st) ==
    IF st.request.method # "POST" \/ st.request.path # server.path THEN "not found"
    ELSE IF st.request.header = None THEN "missing header"
    ELSE IF ~Unwrap(st.request.header).str THEN "invalid header"
    ELSE IF ~st.bodyRead THEN "body"
    ELSE IF st.verified = Some(FALSE) THEN "signature"
    ELSE IF st.parsed = None THEN "encoding"
    ELSE IF st.parsed = Some(FALSE) THEN "payload"
    ELSE "handler"

\* one generic message for each kind of rejection of the Hyper pipeline
HyperGenericBody ==
    [ k \in { "not found", "missing header", "invalid header", "body", "signature",
              "encoding", "payload", "handler" } |->
        CASE k = "not found"      -> "Not Found"
          [] k = "missing header" -> "Missing X-Hub-Signature-256 header"
          [] k = "invalid header" -> "Invalid signature header"
          [] k = "body"           -> "Failed to read body"
          [] k = "signature"      -> "Signature verification failed"
          [] k = "encoding"       -> "Invalid UTF-8"
          [] k = "payload"        -> "Invalid webhook payload"
          [] k = "handler"        -> "Internal server error" ]

\* the errors of one kind with the texts an error of that kind carries in the model
ErrorsOfKind(kind) ==
    { e \in RouteErrors \cup { MissingField("signing key") } : e.kind = kind }

\* C17 (as claimed): the body of a rejection is a generic message fixed by the
\* kind of rejection. In the Hyper pipeline it is the message of the check the
\* request did not pass; in the Rocket responder for OctoAppError it is the
\* same for every error of the kind of the error returned, whatever text the
\* error carries.
C17_RejectionBodiesAreGeneric ==
    (req # None /\ InFlight.pc = "done" /\ ResponseStatus # Status.Ok) =>
        /\ InFlight.adapter = "hyper" =>
              Unwrap(InFlight.resp).body = HyperGenericBody[HyperRejection(InFlight)]
        /\ (InFlight.adapter = "rocket" /\ InFlight.handlerCalls > 0
                /\ InFlight.error # None) =>
              \A e \in ErrorsOfKind(Unwrap(InFlight.error).kind) :
                  RespondTo(e).body = Unwrap(InFlight.resp).body

\* C19 (as claimed): in both adapters, a POST to the webhook route that carries
\* a signature header and whose body arrives, within the limit, and is not
\* valid UTF-8 is answered with 400 Bad Request before its signature is
\* checked, whether or not the signature verifies against the bytes.
C19_EncodingCheckPrecedesSignatureCheck ==
    (/\ req # None
     /\ ToWebhookRoute
     /\ HasSignatureText
     /\ InFlight.request.body.readable
     /\ ~InFlight.request.body.oversize
     /\ ~Utf8Valid(InFlight.request.body.bytes))
    => /\ InFlight.verified = None
       /\ InFlight.pc = "done" => ResponseStatus = Status.BadRequest

====
